---- MODULE Spec2Model ----
(***************************************************************************)
(* Model of the Twitter adapter of botkit:                                 *)
(*   - TwitterWebhookHelper (webhook lifecycle and subscription quota),    *)
(*   - TwitterAdapter.init / processActivity / activityToTweets,           *)
(*   - TwitterAPI.postThreadReply.                                         *)
(* Every network request is one step: the request is sent, Twitter acts on *)
(* it and answers, and the caller runs up to its next await.               *)
(***************************************************************************)
EXTENDS Integers, Sequences, FiniteSets, TLC

VARIABLES
    \* ---- Twitter (the environment) ----
    serverWebhooks,          \* webhook ids registered for the environment, in order
    hookSeq,                 \* ids Twitter has handed out so far
    \* ---- TwitterWebhookHelper fields ----
    _bearerToken,            \* part_001:11
    _getSubscriptionsCount,  \* part_001:10
    \* ---- TwitterAdapter fields ----
    user_id,                 \* options.user_id, part_000:229
    crcRoute,                \* GET route registered on botkit.webserver, part_000:231
    webhook_url,             \* the URL init registers, part_000:239
    \* ---- one async call chain per caller ----
    op,                      \* the top-level operation the caller runs
    method,                  \* the helper method it is in
    pc,                      \* the await it is suspended at
    webhooks,                \* deleteWebhooks' argument
    result,                  \* how the top-level operation ended
    log,                     \* calls, returns and requests of the operation so far
    ncalls,                  \* top-level operations started
    prev,                    \* the operation the caller ran before this one, and its end
    crc,                     \* the answers validateWebhook has given so far
    \* ---- one webhook delivery (processActivity) ----
    body, inPc, family, idx, handled, turns, inflight, responded,
    \* ---- one sendActivities / postThreadReply run ----
    activity, payloads, given, outPc, pi, in_reply_to_id, apiCalls,
    \* ---- one sendActivities batch ----
    activities,              \* the batch
    ai,                      \* the loop index `a` (from 1)
    sendPc,                  \* where sendActivities is
    responses,               \* the ResourceResponses collected
    attempted                \* the activities the loop has taken up so far

helperVars == <<serverWebhooks, hookSeq, _bearerToken, _getSubscriptionsCount,
                crcRoute, webhook_url, op, method, pc, webhooks, result, log, ncalls, prev,
                crc>>
inVars == <<body, inPc, family, idx, handled, turns, inflight, responded>>
outVars == <<activity, payloads, given, outPc, pi, in_reply_to_id, apiCalls>>
sendVars == <<activities, ai, sendPc, responses, attempted>>
vars == <<helperVars, user_id, inVars, outVars, sendVars>>

\* ---------------------------------------------------------------- bounds
MaxWebhooks == 2      \* webhooks registered before the adapter starts
MaxProvisioned == 2   \* largest quota Twitter reports
MaxCalls == 2         \* top-level operations in one run
MaxEvents == 2        \* events in one webhook delivery
MaxChunks == 2        \* outbound texts run to MaxChunks * 280 + 1 characters
MaxPayloads == 3      \* payloads handed to postThreadReply directly
MaxBatch == 2         \* activities in one sendActivities batch
MaxCrc == 2           \* validateWebhook calls in one run

Null == "<null>"          \* JavaScript null
Callers == {1}
Statuses == {200, 204, 403, 429}
BearerTokens == {"AAAA", "BBBB"}
UserIds == {1, 9}
Operations == {"init", "removeWebhooks", "setWebhook", "subscribe", "unsubscribe"}

\* a JavaScript value used as an account id: a number, a string of digits, or undefined
Num(n) == [t |-> "number", v |-> n]
Str(n) == [t |-> "string", v |-> n]
Undefined == [t |-> "undefined", v |-> 0]

\* URLs by what url.parse makes of them (part_001:119): "/api/messages",
\* "http://bot.example/x", "https://bot.example/x", "https:x" (a protocol and
\* no host) and "https://null/x" (a host that is named null)
Urls == {[protocol |-> Null, host |-> Null],
         [protocol |-> "http:", host |-> "bot.example"],
         [protocol |-> "https:", host |-> "bot.example"],
         [protocol |-> "https:", host |-> Null],
         [protocol |-> "https:", host |-> "null"]}

Ev(e, m, a, s) == [ev |-> e, m |-> m, arg |-> a, status |-> s]
Call(m) == Ev("call", m, 0, 0)
Ret(m) == Ev("ret", m, 0, 0)
Throw(m) == Ev("throw", m, 0, 0)
Req(ep, a, s) == Ev("req", ep, a, s)

\* request-promise-native as the helper configures it (resolveWithFullResponse,
\* no `simple: false`): a status outside 2xx rejects the promise.
RequestRejects(status) == status < 200 \/ status > 299

\* ------------------------------------------------- TwitterWebhookHelper

\* a bearerToken() that exchanges the credentials on every call
BearerPcNoCache(token, next) == "bearerToken"

\* bearerToken(): the cached token, or an exchange first (part_001:24-45)
BearerPc(token, next) == IF token # Null THEN next ELSE "bearerToken"

\* setWebhook's URL validation (part_001:119-126)
UrlError(u) ==
    IF u.protocol = Null \/ u.host = "null" THEN "TypeError"
    ELSE IF u.protocol # "https:" THEN "TypeError"
    ELSE "none"

\* init with setWebhook and removeWebhooks in each other's place
InitNextSwapped(m) ==
    CASE m = "verifyCredentials" -> "setWebhook"
      [] m = "setWebhook" -> "removeWebhooks"
      [] m = "removeWebhooks" -> "subscribe"
      [] OTHER -> "end"

\* the order of the helper calls in TwitterAdapter.init (part_000:229-240)
InitNext(m) ==
    CASE m = "verifyCredentials" -> "removeWebhooks"
      [] m = "removeWebhooks" -> "setWebhook"
      [] m = "setWebhook" -> "subscribe"
      [] OTHER -> "end"

\* an init that registers the CRC route only when setWebhook has returned
InitBetweenLate(m) == IF m = "setWebhook" THEN <<Ev("route", "get", 0, 0)>> ELSE <<>>

\* what init does between two helper calls: the CRC route (part_000:231-235)
InitBetween(m) == IF m = "verifyCredentials" THEN <<Ev("route", "get", 0, 0)>> ELSE <<>>

\* where a method first suspends, or the error it throws before any await
Enter(m, token, url) ==
    CASE m = "verifyCredentials" -> [pc |-> "verifyCredentials", err |-> "none"]
      [] m = "removeWebhooks" -> [pc |-> BearerPc(token, "getWebhooks"), err |-> "none"]
      [] m = "setWebhook" ->
           IF UrlError(url) # "none" THEN [pc |-> "done", err |-> UrlError(url)]
           ELSE [pc |-> "setWebhook", err |-> "none"]
      [] m = "subscribe" -> [pc |-> "verifyCredentials", err |-> "none"]
      [] OTHER -> [pc |-> BearerPc(token, "unsubscribe"), err |-> "none"]

\* an init that carries on after a helper call has thrown
InitGoesOnRegardless(outcome) == TRUE

\* init goes on to its next helper call only when the awaited call returned: a
\* rejection leaves init at that await, there is no try/catch (part_000:229-240)
InitGoesOn(outcome) == outcome = "ok"

\* the caller stays in its method and suspends at the next request
Suspend(t, label, evs) ==
    /\ pc' = [pc EXCEPT ![t] = label]
    /\ log' = [log EXCEPT ![t] = @ \o evs]
    /\ UNCHANGED <<op, method, result>>

\* the caller's method returns ("ok") or throws; inside init the next helper call
\* starts only after a return (every call is awaited, part_000:229-240)
Finish(t, outcome, evs) ==
    LET m == method[t]
        nm == InitNext(m)
        e == Enter(nm, _bearerToken, webhook_url)
    IN  /\ UNCHANGED op
        /\ IF op[t] = "init" /\ InitGoesOn(outcome) /\ nm # "end"
           THEN /\ method' = [method EXCEPT ![t] = nm]
                /\ pc' = [pc EXCEPT ![t] = e.pc]
                /\ result' = [result EXCEPT ![t] = IF e.err = "none" THEN "pending" ELSE e.err]
                /\ log' = [log EXCEPT ![t] = @ \o evs \o <<IF outcome = "ok" THEN Ret(m) ELSE Throw(m)>>
                                               \o InitBetween(m) \o <<Call(nm)>>
                                               \o (IF e.err = "none" THEN <<>> ELSE <<Throw(nm)>>)]
           ELSE /\ method' = method
                /\ pc' = [pc EXCEPT ![t] = "done"]
                /\ result' = [result EXCEPT ![t] = outcome]
                /\ log' = [log EXCEPT ![t] = @ \o evs \o <<IF outcome = "ok" THEN Ret(m) ELSE Throw(m)>>]

\* a top-level operation is called (init only as the first thing the process does)
Start(t, o) ==
    LET m == IF o = "init" THEN "verifyCredentials" ELSE o
        e == Enter(m, _bearerToken, webhook_url)
    IN  /\ pc[t] \in {"idle", "done"}
        /\ ncalls < MaxCalls
        /\ o = "init" => ncalls = 0
        /\ ncalls' = ncalls + 1
        /\ prev' = [prev EXCEPT ![t] = [op |-> op[t], result |-> result[t]]]
        /\ op' = [op EXCEPT ![t] = o]
        /\ method' = [method EXCEPT ![t] = m]
        /\ pc' = [pc EXCEPT ![t] = e.pc]
        /\ result' = [result EXCEPT ![t] = IF e.err = "none" THEN "pending" ELSE e.err]
        /\ log' = [log EXCEPT ![t] = <<Call(m)>> \o (IF e.err = "none" THEN <<>> ELSE <<Throw(m)>>)]
        /\ webhooks' = [webhooks EXCEPT ![t] = <<>>]
        /\ UNCHANGED <<serverWebhooks, hookSeq, _bearerToken, _getSubscriptionsCount,
                       crcRoute, webhook_url, user_id>>

\* JSON.parse(response.body): only a 200 carries a body; a 204 has none and
\* JSON.parse of an empty body throws a SyntaxError
BodyParses(status) == status = 200

\* a quota check that never refuses
QuotaCheckNever(count) == "none"

\* a quota check that lets a full quota through
QuotaCheckAbove(count) ==
    IF count.subscriptions_count > count.provisioned_count
    THEN "TooManySubscriptionsError" ELSE "none"

\* subscribe's quota check on the cached pair (part_001:236-245)
QuotaCheck(count) ==
    IF count.subscriptions_count = count.provisioned_count
    THEN "TooManySubscriptionsError" ELSE "none"

\* an update that throws the cached pair away, so that it is fetched again
updateSubscriptionCountDropsCache(cache, increment) == <<>>

\* updateSubscriptionCount(increment) (part_001:76-82)
updateSubscriptionCount(cache, increment) ==
    IF cache = <<>> THEN cache
    ELSE <<[cache[1] EXCEPT !.subscriptions_count = @ + increment]>>

\* subscribe, once the pair is at hand: throw, or go on to the subscribe request
AfterCount(t, cache, evs) ==
    IF QuotaCheck(cache[1]) # "none"
    THEN Finish(t, QuotaCheck(cache[1]), evs)
    ELSE Suspend(t, "subscribe", evs)

\* GET account/verify_credentials.json answers (part_001:173-188, part_000:229-236,
\* part_001:229-236)
VerifyCredentialsResponse(t) ==
    /\ pc[t] = "verifyCredentials"
    /\ \E s \in Statuses :
         LET rq == <<Req("verifyCredentials", 0, s)>> IN
         IF RequestRejects(s) \/ s # 200
         THEN /\ Finish(t, IF RequestRejects(s) THEN "StatusCodeError"
                              ELSE "UserSubscriptionError", rq)
              /\ UNCHANGED <<user_id, crcRoute>>
         ELSE IF method[t] = "verifyCredentials"
         THEN /\ \E id \in UserIds : user_id' = Num(id)
              /\ crcRoute' = (InitBetween(method[t]) # <<>>)
              /\ Finish(t, "ok", rq)
         ELSE /\ UNCHANGED <<user_id, crcRoute>>
              /\ IF _getSubscriptionsCount # <<>>
                 THEN AfterCount(t, _getSubscriptionsCount, rq)
                 ELSE Suspend(t, BearerPc(_bearerToken, "subscriptionsCount"), rq)
    /\ UNCHANGED <<serverWebhooks, hookSeq, _bearerToken, _getSubscriptionsCount,
                   webhook_url, webhooks, ncalls, prev>>

\* the request bearerToken's caller goes on to (part_001:52, 87, 266)
AfterBearer(m) ==
    CASE m = "removeWebhooks" -> "getWebhooks"
      [] m = "subscribe" -> "subscriptionsCount"
      [] OTHER -> "unsubscribe"

\* POST oauth2/token answers (part_001:42-44)
BearerTokenResponse(t) ==
    /\ pc[t] = "bearerToken"
    /\ \E s \in Statuses, tok \in BearerTokens :
         LET rq == <<Req("bearerToken", 0, s)>> IN
         IF RequestRejects(s) \/ ~BodyParses(s)
         THEN /\ Finish(t, IF RequestRejects(s) THEN "StatusCodeError" ELSE "SyntaxError", rq)
              /\ UNCHANGED _bearerToken
         ELSE /\ _bearerToken' = tok
              /\ Suspend(t, AfterBearer(method[t]), rq)
    /\ UNCHANGED <<serverWebhooks, hookSeq, _getSubscriptionsCount, crcRoute,
                   webhook_url, user_id, webhooks, ncalls, prev>>

\* getWebhooks' status switch (part_001:96-108)
GetWebhooksError(status) ==
    IF RequestRejects(status) THEN "StatusCodeError"
    ELSE IF status = 200 THEN "none"
    ELSE IF status = 429 THEN "RateLimitError"
    ELSE "URIError"

\* GET webhooks.json answers; removeWebhooks hands the list to deleteWebhooks
\* (part_001:95-116, 223-226, 191-193)
GetWebhooksResponse(t) ==
    /\ pc[t] = "getWebhooks"
    /\ \E s \in Statuses :
         LET rq == <<Req("getWebhooks", 0, s)>> IN
         IF GetWebhooksError(s) # "none"
         THEN Finish(t, GetWebhooksError(s), rq) /\ UNCHANGED webhooks
         ELSE /\ webhooks' = [webhooks EXCEPT ![t] = serverWebhooks]
              /\ IF serverWebhooks = <<>>
                 THEN Finish(t, "ok", rq)
                 ELSE Suspend(t, "deleteWebhook", rq)
    /\ UNCHANGED <<serverWebhooks, hookSeq, _bearerToken, _getSubscriptionsCount,
                   crcRoute, webhook_url, user_id, ncalls, prev>>

\* deleteWebhooks' status switch inside its loop (part_001:204-219): every arm
\* leaves the loop, 200 and 204 with `return true`, the others with a throw
DeleteWebhooksStep(status) ==
    IF RequestRejects(status) THEN "StatusCodeError"
    ELSE IF status \in {200, 204} THEN "return"
    ELSE IF status = 429 THEN "RateLimitError"
    ELSE "URIError"

\* Twitter removes a webhook it answers 200 or 204 for
Without(list, id) == SelectSeq(list, LAMBDA w : w # id)

\* DELETE webhooks/:id.json answers (part_001:193-220)
DeleteWebhookResponse(t) ==
    /\ pc[t] = "deleteWebhook"
    /\ webhooks[t] # <<>>
    /\ \E s \in Statuses :
         LET id == Head(webhooks[t])
             rq == <<Req("deleteWebhook", id, s)>>
             step == DeleteWebhooksStep(s)
         IN  /\ serverWebhooks' = IF s \in {200, 204} THEN Without(serverWebhooks, id)
                                  ELSE serverWebhooks
             /\ Finish(t, IF step = "return" THEN "ok" ELSE step, rq)
    /\ UNCHANGED <<webhooks, hookSeq, _bearerToken, _getSubscriptionsCount, crcRoute,
                   webhook_url, user_id, ncalls, prev>>

\* setWebhook's status switch and the parse of the answer (part_001:141-162)
SetWebhookError(status) ==
    IF RequestRejects(status) THEN "StatusCodeError"
    ELSE IF status \in {200, 204} THEN (IF BodyParses(status) THEN "none" ELSE "SyntaxError")
    ELSE IF status \in {400, 403} THEN "WebhookURIError"
    ELSE IF status = 429 THEN "RateLimitError"
    ELSE "URIError"

\* POST webhooks.json?url=... answers (part_001:139-162); Twitter registers the
\* URL when it answers 200 or 204
SetWebhookResponse(t) ==
    /\ pc[t] = "setWebhook"
    /\ \E s \in Statuses :
         LET rq == <<Req("setWebhook", hookSeq + 1, s)>> IN
         /\ IF s \in {200, 204}
            THEN /\ serverWebhooks' = Append(serverWebhooks, hookSeq + 1)
                 /\ hookSeq' = hookSeq + 1
            ELSE UNCHANGED <<serverWebhooks, hookSeq>>
         /\ Finish(t, IF SetWebhookError(s) = "none" THEN "ok" ELSE SetWebhookError(s), rq)
    /\ UNCHANGED <<_bearerToken, _getSubscriptionsCount, crcRoute, webhook_url,
                   user_id, webhooks, ncalls, prev>>

\* getSubscriptionsCount's status switch (part_001:62-70)
SubscriptionsCountError(status) ==
    IF RequestRejects(status) THEN "StatusCodeError"
    ELSE IF status = 200 THEN "none"
    ELSE IF status = 429 THEN "RateLimitError"
    ELSE "TwitterError"

\* GET subscriptions/count.json answers (part_001:60-73, 236-245)
SubscriptionsCountResponse(t) ==
    /\ pc[t] = "subscriptionsCount"
    /\ \E s \in Statuses, sc \in 0..MaxProvisioned, pv \in 0..MaxProvisioned :
         LET rq == <<Req("subscriptionsCount", 0, s)>>
             got == <<[subscriptions_count |-> sc, provisioned_count |-> pv]>>
         IN  IF SubscriptionsCountError(s) # "none"
             THEN /\ Finish(t, SubscriptionsCountError(s), rq)
                  /\ UNCHANGED _getSubscriptionsCount
             ELSE /\ _getSubscriptionsCount' = got
                  /\ AfterCount(t, got, rq)
    /\ UNCHANGED <<serverWebhooks, hookSeq, _bearerToken, crcRoute, webhook_url,
                   user_id, webhooks, ncalls, prev>>

\* subscribe's and unsubscribe's test of the answer (part_001:255-262, 275-282)
SubscriptionError(status) ==
    IF RequestRejects(status) THEN "StatusCodeError"
    ELSE IF status = 204 THEN "none"
    ELSE "UserSubscriptionError"

\* POST subscriptions.json answers (part_001:254-262)
SubscribeResponse(t) ==
    /\ pc[t] = "subscribe"
    /\ \E s \in Statuses :
         LET rq == <<Req("subscribe", 0, s)>> IN
         IF SubscriptionError(s) = "none"
         THEN /\ _getSubscriptionsCount' = updateSubscriptionCount(_getSubscriptionsCount, 1)
              /\ Finish(t, "ok", rq)
         ELSE /\ UNCHANGED _getSubscriptionsCount
              /\ Finish(t, SubscriptionError(s), rq)
    /\ UNCHANGED <<serverWebhooks, hookSeq, _bearerToken, crcRoute, webhook_url,
                   user_id, webhooks, ncalls, prev>>

\* DELETE subscriptions/:userId.json answers (part_001:273-282)
UnsubscribeResponse(t) ==
    /\ pc[t] = "unsubscribe"
    /\ \E s \in Statuses :
         LET rq == <<Req("unsubscribe", 0, s)>> IN
         IF SubscriptionError(s) = "none"
         THEN /\ _getSubscriptionsCount' = updateSubscriptionCount(_getSubscriptionsCount, -1)
              /\ Finish(t, "ok", rq)
         ELSE /\ UNCHANGED _getSubscriptionsCount
              /\ Finish(t, SubscriptionError(s), rq)
    /\ UNCHANGED <<serverWebhooks, hookSeq, _bearerToken, crcRoute, webhook_url,
                   user_id, webhooks, ncalls, prev>>

\* the crc_token Twitter sends (one value, sent again and again) and the
\* consumer_secret of the oauth object the adapter passes (part_000:232)
CrcTokens == {"t1"}
ConsumerSecret == "secret"

\* crypto.createHmac('sha256', key).update(msg).digest('base64'): a keyed
\* digest, a function of key and message alone, taken as collision-free on the
\* few inputs used here and so written as the pair it is computed from
Hmac(key, msg) == <<"hmac-sha256", key, msg>>

\* a validateWebhook whose key is whatever bearer token is cached
validateWebhookCachedKey(token, consumer_secret) ==
    [response_token |-> <<"sha256=">> \o Hmac(IF _bearerToken = Null THEN consumer_secret
                                              ELSE _bearerToken, token)]

\* validateWebhook(token, auth) (part_001:168-171)
validateWebhook(token, consumer_secret) ==
    [response_token |-> <<"sha256=">> \o Hmac(consumer_secret, token)]

\* validateWebhook is called, by the CRC route init registered (part_000:231-235)
\* or directly; it is synchronous, so the call is one step, taken in whatever
\* state the helper is in. The answer is kept with the caches it was given in.
ValidateWebhook ==
    /\ Len(crc) < MaxCrc
    /\ \E token \in CrcTokens :
         crc' = Append(crc, [token |-> token, consumer_secret |-> ConsumerSecret,
                             answer |-> validateWebhook(token, ConsumerSecret),
                             bearer |-> _bearerToken # Null,
                             cached |-> _getSubscriptionsCount # <<>>])
    /\ UNCHANGED <<serverWebhooks, hookSeq, _bearerToken, _getSubscriptionsCount,
                   crcRoute, webhook_url, op, method, pc, webhooks, result, log, ncalls,
                   prev, user_id>>

\* ------------------------------------------ TwitterAdapter.processActivity

Families == <<"tweet_create_events", "direct_message_events",
              "direct_messsage_indicate_typing_events", "direct_message_mark_read_events">>
FamilyNames == {Families[i] : i \in 1..Len(Families)}

\* a !== b: a string never equals a number
StrictNotEqual(a, b) == a # b

\* a != b of JavaScript on account ids: a string of digits and a number compare
\* by value, undefined equals only undefined (part_000:442, 519)
LooseNotEqual(a, b) ==
    IF a.t = "undefined" \/ b.t = "undefined" THEN a.t # b.t
    ELSE a.v # b.v

NoActivity == [channelId |-> "none", type |-> "none", conversation |-> Undefined,
               from |-> Undefined, recipient |-> Undefined, text |-> ""]

\* a translation that names the author as the recipient
processSingleMentionTweetToAuthor(tweet, uid) ==
    IF LooseNotEqual(tweet.sender, uid)
    THEN [kind |-> "turn",
          activity |-> [channelId |-> "TwitterMention", type |-> "message",
                        conversation |-> tweet.sender, from |-> tweet.sender,
                        recipient |-> tweet.sender, text |-> tweet.text]]
    ELSE [kind |-> "skip", activity |-> NoActivity]

\* processSingleMentionTweet (part_000:517-547)
processSingleMentionTweet(tweet, uid) ==
    IF LooseNotEqual(tweet.sender, uid)
    THEN [kind |-> "turn",
          activity |-> [channelId |-> "TwitterMention", type |-> "message",
                        conversation |-> tweet.sender, from |-> tweet.sender,
                        recipient |-> uid, text |-> tweet.text]]
    ELSE [kind |-> "skip", activity |-> NoActivity]

\* processSingleDM (part_000:440-469)
processSingleDM(message, uid) ==
    IF LooseNotEqual(message.sender, uid)
    THEN [kind |-> "turn",
          activity |-> [channelId |-> "TwitterDM", type |-> "message",
                        conversation |-> message.sender, from |-> message.sender,
                        recipient |-> message.recipient, text |-> message.text]]
    ELSE [kind |-> "skip", activity |-> NoActivity]

\* processSingleDMTypingEvent reads message.taget (part_000:471-492): an event
\* that carries `target` makes it throw a TypeError
processSingleDMTypingEvent(message, uid) ==
    IF message.key # "taget"
    THEN [kind |-> "throw", activity |-> NoActivity]
    ELSE [kind |-> "turn",
          activity |-> [channelId |-> "TwitterDM", type |-> "typing",
                        conversation |-> message.sender, from |-> message.sender,
                        recipient |-> message.recipient, text |-> ""]]

\* processSingleMarkReadEvent reads message.target (part_000:494-515)
processSingleMarkReadEvent(message, uid) ==
    IF message.key # "target"
    THEN [kind |-> "throw", activity |-> NoActivity]
    ELSE [kind |-> "turn",
          activity |-> [channelId |-> "TwitterDM", type |-> "messageReaction",
                        conversation |-> message.sender, from |-> message.sender,
                        recipient |-> message.recipient, text |-> ""]]

processSingle(f, e, uid) ==
    CASE f = "tweet_create_events" -> processSingleMentionTweet(e, uid)
      [] f = "direct_message_events" -> processSingleDM(e, uid)
      [] f = "direct_messsage_indicate_typing_events" -> processSingleDMTypingEvent(e, uid)
      [] OTHER -> processSingleMarkReadEvent(e, uid)

\* the if / else if chain of processActivity (part_000:411-427): the families
\* whose loop runs. An array, even an empty one, is truthy.
Dispatched(b) ==
    IF b["tweet_create_events"].present THEN {"tweet_create_events"}
    ELSE IF b["direct_message_events"].present THEN {"direct_message_events"}
    ELSE IF b["direct_messsage_indicate_typing_events"].present
    THEN {"direct_messsage_indicate_typing_events"}
    ELSE IF b["direct_message_mark_read_events"].present
    THEN {"direct_message_mark_read_events"}
    ELSE {}

\* a turn that is started and not awaited
TurnPcNotAwaited(f) == "loop"

\* where processActivity is after it has started a turn: suspended until the
\* turn ends (await, part_000:413, 417, 421, 425)
TurnPc(f) == "turn"

\* processActivity is entered: the chain picks the loop to run (part_000:408-427)
Dispatch ==
    /\ inPc = "start"
    /\ IF Dispatched(body) = {}
       THEN inPc' = "respond" /\ UNCHANGED family
       ELSE /\ family' = CHOOSE f \in Dispatched(body) : TRUE
            /\ inPc' = "loop"
    /\ UNCHANGED <<body, idx, handled, turns, inflight, responded, user_id>>

\* one pass of the running loop: the next event is translated and its turn
\* started, or the loop ends
NextEvent ==
    /\ inPc = "loop"
    /\ IF idx > Len(body[family].events)
       THEN /\ inPc' = "respond"
            /\ UNCHANGED <<idx, handled, turns, inflight>>
       ELSE LET r == processSingle(family, body[family].events[idx], user_id) IN
            /\ handled' = Append(handled, [family |-> family, i |-> idx])
            /\ CASE r.kind = "skip" ->
                      /\ idx' = idx + 1
                      /\ UNCHANGED <<inPc, turns, inflight>>
                 [] r.kind = "throw" ->
                      /\ inPc' = "rejected"
                      /\ UNCHANGED <<idx, turns, inflight>>
                 [] OTHER ->
                      /\ turns' = Append(turns, [ev |-> "start", family |-> family, i |-> idx,
                                                 activity |-> r.activity])
                      /\ inflight' = inflight \cup {idx}
                      /\ inPc' = TurnPc(family)
                      /\ idx' = IF TurnPc(family) = "turn" THEN idx ELSE idx + 1
    /\ UNCHANGED <<body, family, responded, user_id>>

\* the bot logic of a turn ends: runMiddleware resolves or rejects
TurnEnd ==
    /\ \E i \in inflight, outcome \in {"ok", "throw"} :
         /\ inflight' = inflight \ {i}
         /\ turns' = Append(turns, [ev |-> outcome, family |-> family, i |-> i,
                                    activity |-> NoActivity])
         /\ IF inPc = "turn" /\ idx = i
            THEN /\ inPc' = IF outcome = "ok" THEN "loop" ELSE "rejected"
                 /\ idx' = IF outcome = "ok" THEN idx + 1 ELSE idx
            ELSE UNCHANGED <<inPc, idx>>
    /\ UNCHANGED <<body, family, handled, responded, user_id>>

\* res.status(200); res.end() (part_000:429-430)
Respond ==
    /\ inPc = "respond"
    /\ responded' = TRUE
    /\ inPc' = "done"
    /\ UNCHANGED <<body, family, idx, handled, turns, inflight, user_id>>

\* ------------------------------- activityToTweets and postThreadReply

\* the quantifier of /.{1,280}/g (part_000:303)
ChunkLen == 280

\* characters `.` does not match: the line terminators
IsLineTerminator(c) == c \in {"\n", "\r"}

Least(S) == CHOOSE x \in S : \A y \in S : x <= y

\* text.match(/.{1,280}/g) from position p on: each match starts at the first
\* character `.` matches and takes as many as it can, up to 280; the result is
\* <<>> where JavaScript gives null (no match at all)
RECURSIVE Match(_, _)
Match(txt, p) ==
    LET starts == {q \in p..Len(txt) : ~IsLineTerminator(txt[q])} IN
    IF starts = {} THEN <<>>
    ELSE LET first == Least(starts)
             stops == {q \in first..Len(txt) : IsLineTerminator(txt[q])}
             runEnd == IF stops = {} THEN Len(txt) ELSE Least(stops) - 1
             last == IF runEnd < first + ChunkLen - 1 THEN runEnd ELSE first + ChunkLen - 1
         IN  <<SubSeq(txt, first, last)>> \o Match(txt, last + 1)

\* activityToTweets (part_000:302-309): one payload per match
activityToTweets(a) ==
    LET texts == Match(a.text, 1) IN
    [i \in 1..Len(texts) |-> [status |-> texts[i],
                              in_reply_to_status_id |-> a.replyToId,
                              auto_populate_reply_metadata |-> TRUE]]

UndefinedId == "<undefined>"
TweetIds == {"100", "101"}

\* `body.error` of a parsed answer: absent, or an object with a message
NoError == [present |-> FALSE, message |-> ""]
ErrorObject == [present |-> TRUE, message |-> "Sorry, that page does not exist"]

\* the `body` the request callback is given: undefined (no body at all, as
\* after a 204 or a transport error), or an object that may hold `error` and
\* the new tweet's or message's id
NoBody == [present |-> FALSE, error |-> NoError, id_str |-> UndefinedId]
JsonBodies ==
    {[present |-> TRUE, error |-> ErrorObject, id_str |-> UndefinedId]}
    \cup {[present |-> TRUE, error |-> NoError, id_str |-> i] : i \in TweetIds \cup {UndefinedId}}

\* what the transport hands to the callback of request (part_000:70): an error
\* and no body, or no error and the parsed body
TransportErrors == {"ECONNRESET"}
Transports ==
    {[err |-> e, body |-> NoBody] : e \in TransportErrors}
    \cup {[err |-> Null, body |-> b] : b \in JsonBodies \cup {NoBody}}

\* statuses/update.json answers with a JSON body whenever the transport works
StatusTransports == {tr \in Transports : tr.err # Null \/ tr.body.present}

\* a callback that never looks into the body
callAPIIgnoresBodyError(tr) ==
    IF tr.err # Null THEN [kind |-> "reject", reason |-> tr.err, body |-> NoBody]
    ELSE [kind |-> "resolve", reason |-> "", body |-> tr.body]

\* the callback of callAPI (part_000:70-78): how the promise is settled
callAPI(tr) ==
    IF tr.err # Null THEN [kind |-> "reject", reason |-> tr.err, body |-> NoBody]
    ELSE IF tr.body.present /\ tr.body.error.present
    THEN [kind |-> "reject", reason |-> tr.body.error.message, body |-> NoBody]
    ELSE [kind |-> "resolve", reason |-> "", body |-> tr.body]

\* a loop that never moves the parent id on
NextInReplyToKept(parent, res) == parent

\* in_reply_to_id = res.id_str (part_000:90)
NextInReplyTo(parent, res) == res.id_str

\* the activity is turned into tweet payloads; texts.map throws a TypeError
\* when match gave null (part_000:303-304)
ActivityToTweets ==
    /\ outPc = "activity"
    /\ IF Match(activity.text, 1) = <<>>
       THEN outPc' = "threw" /\ UNCHANGED payloads
       ELSE payloads' = activityToTweets(activity) /\ outPc' = "thread"
    /\ UNCHANGED <<activity, given, pi, in_reply_to_id, apiCalls>>

\* postThreadReply is entered (part_000:86-87); payloads[0] of an empty array is
\* undefined and reading its field throws a TypeError
PostThreadReply ==
    /\ outPc = "thread"
    /\ given' = payloads
    /\ IF payloads = <<>>
       THEN outPc' = "rejected" /\ UNCHANGED <<pi, in_reply_to_id>>
       ELSE /\ in_reply_to_id' = payloads[1].in_reply_to_status_id
            /\ pi' = 1
            /\ outPc' = "call"
    /\ UNCHANGED <<activity, payloads, apiCalls>>

\* one pass of the loop: payloads[i] gets the parent id, is posted, and the
\* answer is awaited (part_000:87-91)
StatusUpdateResponse ==
    /\ outPc = "call"
    /\ pi <= Len(payloads)
    /\ \E tr \in StatusTransports :
         LET sent == [payloads[pi] EXCEPT !.in_reply_to_status_id = in_reply_to_id]
             out == callAPI(tr)
             res == [kind |-> out.kind, reason |-> out.reason, id_str |-> out.body.id_str]
         IN
         /\ payloads' = [payloads EXCEPT ![pi] = sent]
         /\ apiCalls' = Append(apiCalls, [path |-> "/statuses/update.json", i |-> pi,
                                          a |-> ai, form |-> sent, res |-> res,
                                          http |-> <<tr>>, out |-> out])
         /\ IF res.kind = "reject"
            THEN outPc' = "rejected" /\ UNCHANGED <<pi, in_reply_to_id>>
            ELSE /\ in_reply_to_id' = NextInReplyTo(in_reply_to_id, res)
                 /\ pi' = pi + 1
                 /\ outPc' = IF pi + 1 <= Len(payloads) THEN "call" ELSE "done"
    /\ UNCHANGED <<activity, given>>

\* ------------------------------------------- TwitterAdapter.sendActivities

\* a dispatch that sends every TwitterDM activity as a message
SendBranchAnyDm(act) ==
    IF act.channelId = "TwitterMention" /\ act.type = "message" THEN "mention"
    ELSE IF act.channelId = "TwitterDM" THEN "dm"
    ELSE "unknown"

\* which branch of the loop body an activity takes (part_000:321, 331-332, 344, 358)
SendBranch(act) ==
    IF act.channelId = "TwitterMention" /\ act.type = "message" THEN "mention"
    ELSE IF act.channelId = "TwitterDM"
    THEN (IF act.type = "message" THEN "dm"
          ELSE IF act.type = "typing" THEN "typing" ELSE "none")
    ELSE "unknown"

\* the endpoint of a direct message activity (part_000:336, 348)
DmPath(branch) ==
    IF branch = "dm" THEN "/direct_messages/events/new.json"
    ELSE "/direct_messages/indicate_typing.json"

\* one pass of the loop of sendActivities up to its first await (part_000:319-325,
\* 333-336, 345-348), or the return after the loop (part_000:364). For a
\* TwitterMention message activityToTweets runs next, before the try block.
SendNext ==
    /\ sendPc = "loop"
    /\ IF ai > Len(activities)
       THEN /\ sendPc' = "returned"
            /\ UNCHANGED <<ai, attempted, outVars>>
       ELSE LET act == activities[ai] IN
            /\ attempted' = Append(attempted, ai)
            /\ CASE SendBranch(act) = "mention" ->
                      /\ activity' = [text |-> act.text, replyToId |-> act.replyToId]
                      /\ payloads' = <<>>
                      /\ given' = <<>>
                      /\ outPc' = "activity"
                      /\ pi' = 1
                      /\ in_reply_to_id' = UndefinedId
                      /\ sendPc' = "mention"
                      /\ UNCHANGED <<ai, apiCalls>>
                 [] SendBranch(act) \in {"dm", "typing"} ->
                      /\ sendPc' = "callAPI"
                      /\ UNCHANGED <<ai, outVars>>
                 [] OTHER ->
                      /\ ai' = ai + 1
                      /\ UNCHANGED <<sendPc, outVars>>
    /\ UNCHANGED <<activities, responses>>

\* the TwitterMention branch ends (part_000:323-330): a rejection of
\* postThreadReply is caught and the loop goes on; an error thrown by
\* activityToTweets, which is called before the try block, leaves sendActivities
SendMentionEnd ==
    /\ sendPc = "mention"
    /\ outPc \in {"done", "rejected", "threw"}
    /\ IF outPc = "threw"
       THEN sendPc' = "threw" /\ UNCHANGED ai
       ELSE sendPc' = "loop" /\ ai' = ai + 1
    /\ UNCHANGED <<activities, responses, attempted, outVars>>

\* the direct message call ends (part_000:336-343, 348-355): a response is
\* kept when callAPI resolved with a body (`if (res)`), a rejection is caught
SendCallAPIResponse ==
    /\ sendPc = "callAPI"
    /\ \E tr \in Transports :
         LET out == callAPI(tr)
             res == [kind |-> out.kind, reason |-> out.reason, id_str |-> out.body.id_str]
         IN
         /\ apiCalls' = Append(apiCalls, [path |-> DmPath(SendBranch(activities[ai])), i |-> 0,
                                          a |-> ai, form |-> <<>>, res |-> res,
                                          http |-> <<tr>>, out |-> out])
         /\ responses' = IF out.kind = "resolve" /\ out.body.present
                         THEN Append(responses, ai) ELSE responses
    /\ ai' = ai + 1
    /\ sendPc' = "loop"
    /\ UNCHANGED <<activities, attempted, activity, payloads, given, outPc, pi, in_reply_to_id>>

\* ------------------------------------------------------ initial states

\* no batch being sent
SendIdle ==
    /\ activities = <<>>
    /\ ai = 1
    /\ sendPc = "returned"
    /\ responses = <<>>
    /\ attempted = <<>>

\* the activities a bot sends: TwitterMention messages (the text empty, a line
\* break alone, or one character), direct messages, typing indicators, and
\* activities the adapter has no branch for
SendActivity ==
    {[channelId |-> "TwitterMention", type |-> "message", text |-> x, replyToId |-> "50"] :
        x \in {<<>>, <<"\n">>, <<"a">>}}
    \cup {[channelId |-> "TwitterDM", type |-> ty, text |-> <<"a">>, replyToId |-> UndefinedId] :
        ty \in {"message", "typing", "endOfConversation"}}
    \cup {[channelId |-> "webchat", type |-> "message", text |-> <<"a">>, replyToId |-> UndefinedId],
          [channelId |-> "TwitterMention", type |-> "typing", text |-> <<"a">>, replyToId |-> "50"]}

\* sendActivities has been called with a batch
SendInit ==
    /\ activities \in UNION {[1..k -> SendActivity] : k \in 0..MaxBatch}
    /\ ai = 1
    /\ sendPc = "loop"
    /\ responses = <<>>
    /\ attempted = <<>>

HelperInit ==
    /\ \E n \in 0..MaxWebhooks :
         /\ serverWebhooks = [i \in 1..n |-> i]
         /\ hookSeq = n
    /\ _bearerToken = Null
    /\ _getSubscriptionsCount = <<>>
    /\ crcRoute = FALSE
    /\ webhook_url \in Urls
    /\ op = [t \in Callers |-> "none"]
    /\ method = [t \in Callers |-> "none"]
    /\ pc = [t \in Callers |-> "idle"]
    /\ webhooks = [t \in Callers |-> <<>>]
    /\ result = [t \in Callers |-> "none"]
    /\ log = [t \in Callers |-> <<>>]
    /\ ncalls = 0
    /\ prev = [t \in Callers |-> [op |-> "none", result |-> "none"]]
    /\ crc = <<>>

\* no delivery under way
InboundIdle ==
    /\ body = [f \in FamilyNames |-> [present |-> FALSE, events |-> <<>>]]
    /\ inPc = "done"
    /\ family = "none"
    /\ idx = 1
    /\ handled = <<>>
    /\ turns = <<>>
    /\ inflight = {}
    /\ responded = FALSE

\* nothing being sent
OutboundIdle ==
    /\ activity = [text |-> <<>>, replyToId |-> UndefinedId]
    /\ payloads = <<>>
    /\ given = <<>>
    /\ outPc = "done"
    /\ pi = 1
    /\ in_reply_to_id = UndefinedId
    /\ apiCalls = <<>>

SeqsUpTo(S, n) == UNION {[1..k -> S] : k \in 0..n}

Other(n) == CHOOSE m \in UserIds : m # n

\* the events Twitter delivers in each family; a typing event is taken with
\* either spelling of its target field
EventsOf(f) ==
    CASE f = "tweet_create_events" ->
           {[sender |-> Num(n), recipient |-> Undefined, key |-> "none", text |-> x] :
              n \in UserIds, x \in {"hi", "yo"}}
      [] f = "direct_message_events" ->
           {[sender |-> Str(n), recipient |-> Str(Other(n)), key |-> "target", text |-> "hi"] :
              n \in UserIds}
      [] f = "direct_messsage_indicate_typing_events" ->
           {[sender |-> Str(n), recipient |-> Str(Other(n)), key |-> k, text |-> ""] :
              n \in UserIds, k \in {"target", "taget"}}
      [] OTHER ->
           {[sender |-> Str(n), recipient |-> Str(Other(n)), key |-> "target", text |-> ""] :
              n \in UserIds}

FamilyOptions(f) ==
    {[present |-> FALSE, events |-> <<>>]}
    \cup {[present |-> TRUE, events |-> s] : s \in SeqsUpTo(EventsOf(f), MaxEvents)}

RECURSIVE SumLen(_, _)
SumLen(b, i) == IF i > Len(Families) THEN 0
                ELSE Len(b[Families[i]].events) + SumLen(b, i + 1)

Bodies ==
    {b \in [tweet_create_events : FamilyOptions("tweet_create_events"),
            direct_message_events : FamilyOptions("direct_message_events"),
            direct_messsage_indicate_typing_events :
                FamilyOptions("direct_messsage_indicate_typing_events"),
            direct_message_mark_read_events : FamilyOptions("direct_message_mark_read_events")] :
       SumLen(b, 1) <= MaxEvents}

\* a webhook delivery has arrived at an adapter whose self id is a number (from
\* verifyCredentials), a configured string, or was never set
InboundInit ==
    /\ body \in Bodies
    /\ user_id \in {Num(1), Str(1), Undefined}
    /\ inPc = "start"
    /\ family = "none"
    /\ idx = 1
    /\ handled = <<>>
    /\ turns = <<>>
    /\ inflight = {}
    /\ responded = FALSE

Run(n) == [i \in 1..n |-> "a"]

\* outbound texts: every length around a multiple of 280, and texts with a
\* line break between two runs
OutTexts ==
    {Run(k * ChunkLen + d) : k \in 0..MaxChunks, d \in {0, 1}}
    \cup {Run(k * ChunkLen - 1) : k \in 1..MaxChunks}
    \cup {Run(a) \o <<"\n">> \o Run(b) : a \in {0, 1, ChunkLen}, b \in {0, 1, ChunkLen}}

DirectPayloads ==
    SeqsUpTo({[status |-> <<"a">>, in_reply_to_status_id |-> r,
               auto_populate_reply_metadata |-> TRUE] : r \in {"50", "60"}}, MaxPayloads)

\* a TwitterMention message is about to be sent, or postThreadReply is called
\* directly through bot.api
OutboundInit ==
    /\ \/ /\ activity \in {[text |-> x, replyToId |-> "50"] : x \in OutTexts}
          /\ payloads = <<>>
          /\ outPc = "activity"
       \/ /\ activity = [text |-> <<>>, replyToId |-> UndefinedId]
          /\ payloads \in DirectPayloads
          /\ outPc = "thread"
    /\ given = <<>>
    /\ pi = 1
    /\ in_reply_to_id = UndefinedId
    /\ apiCalls = <<>>

\* ------------------------------------------------------ specifications

\* the webhook lifecycle: init and the helper's operations, one at a time
Init == HelperInit /\ user_id = Undefined /\ InboundIdle /\ OutboundIdle /\ SendIdle
Next ==
    \/ \E t \in Callers, o \in Operations : Start(t, o) /\ UNCHANGED <<crc, inVars, outVars, sendVars>>
    \/ \E t \in Callers : VerifyCredentialsResponse(t) /\ UNCHANGED <<crc, inVars, outVars, sendVars>>
    \/ \E t \in Callers : BearerTokenResponse(t) /\ UNCHANGED <<crc, inVars, outVars, sendVars>>
    \/ \E t \in Callers : GetWebhooksResponse(t) /\ UNCHANGED <<crc, inVars, outVars, sendVars>>
    \/ \E t \in Callers : DeleteWebhookResponse(t) /\ UNCHANGED <<crc, inVars, outVars, sendVars>>
    \/ \E t \in Callers : SetWebhookResponse(t) /\ UNCHANGED <<crc, inVars, outVars, sendVars>>
    \/ \E t \in Callers : SubscriptionsCountResponse(t) /\ UNCHANGED <<crc, inVars, outVars, sendVars>>
    \/ \E t \in Callers : SubscribeResponse(t) /\ UNCHANGED <<crc, inVars, outVars, sendVars>>
    \/ \E t \in Callers : UnsubscribeResponse(t) /\ UNCHANGED <<crc, inVars, outVars, sendVars>>
Spec == Init /\ [][Next]_vars

\* the helper's operations with CRC challenges arriving in between, on an
\* environment without webhooks and a URL Twitter can call
InitCrc == Init /\ serverWebhooks = <<>>
           /\ webhook_url = [protocol |-> "https:", host |-> "bot.example"]
NextCrc ==
    \/ \E t \in Callers, o \in Operations : Start(t, o) /\ UNCHANGED <<crc, inVars, outVars, sendVars>>
    \/ \E t \in Callers : VerifyCredentialsResponse(t) /\ UNCHANGED <<crc, inVars, outVars, sendVars>>
    \/ \E t \in Callers : BearerTokenResponse(t) /\ UNCHANGED <<crc, inVars, outVars, sendVars>>
    \/ \E t \in Callers : GetWebhooksResponse(t) /\ UNCHANGED <<crc, inVars, outVars, sendVars>>
    \/ \E t \in Callers : DeleteWebhookResponse(t) /\ UNCHANGED <<crc, inVars, outVars, sendVars>>
    \/ \E t \in Callers : SetWebhookResponse(t) /\ UNCHANGED <<crc, inVars, outVars, sendVars>>
    \/ \E t \in Callers : SubscriptionsCountResponse(t) /\ UNCHANGED <<crc, inVars, outVars, sendVars>>
    \/ \E t \in Callers : SubscribeResponse(t) /\ UNCHANGED <<crc, inVars, outVars, sendVars>>
    \/ \E t \in Callers : UnsubscribeResponse(t) /\ UNCHANGED <<crc, inVars, outVars, sendVars>>
    \/ ValidateWebhook /\ UNCHANGED <<inVars, outVars, sendVars>>
SpecCrc == InitCrc /\ [][NextCrc]_vars

\* subscribe and unsubscribe calls on one helper, one after the other
SubscriptionOperations == {"subscribe", "unsubscribe"}
InitSubs == Init /\ serverWebhooks = <<>>
            /\ webhook_url = [protocol |-> "https:", host |-> "bot.example"]
NextSubs ==
    \/ \E t \in Callers, o \in SubscriptionOperations :
          Start(t, o) /\ UNCHANGED <<crc, inVars, outVars, sendVars>>
    \/ \E t \in Callers : VerifyCredentialsResponse(t) /\ UNCHANGED <<crc, inVars, outVars, sendVars>>
    \/ \E t \in Callers : BearerTokenResponse(t) /\ UNCHANGED <<crc, inVars, outVars, sendVars>>
    \/ \E t \in Callers : SubscriptionsCountResponse(t) /\ UNCHANGED <<crc, inVars, outVars, sendVars>>
    \/ \E t \in Callers : SubscribeResponse(t) /\ UNCHANGED <<crc, inVars, outVars, sendVars>>
    \/ \E t \in Callers : UnsubscribeResponse(t) /\ UNCHANGED <<crc, inVars, outVars, sendVars>>
SpecSubs == InitSubs /\ [][NextSubs]_vars

\* two subscribe() calls on one helper that may be in flight at the same time
\* (nothing in the helper keeps a second call from starting while the first is
\* suspended at a request)
TwoCallers == {1, 2}
InitTwo ==
    /\ serverWebhooks = <<>>
    /\ hookSeq = 0
    /\ _bearerToken = Null
    /\ _getSubscriptionsCount = <<>>
    /\ crcRoute = FALSE
    /\ webhook_url = [protocol |-> "https:", host |-> "bot.example"]
    /\ op = [t \in TwoCallers |-> "none"]
    /\ method = [t \in TwoCallers |-> "none"]
    /\ pc = [t \in TwoCallers |-> "idle"]
    /\ webhooks = [t \in TwoCallers |-> <<>>]
    /\ result = [t \in TwoCallers |-> "none"]
    /\ log = [t \in TwoCallers |-> <<>>]
    /\ ncalls = 0
    /\ prev = [t \in TwoCallers |-> [op |-> "none", result |-> "none"]]
    /\ crc = <<>>
    /\ user_id = Undefined
    /\ InboundIdle /\ OutboundIdle /\ SendIdle
NextTwo ==
    \/ \E t \in TwoCallers : Start(t, "subscribe") /\ UNCHANGED <<crc, inVars, outVars, sendVars>>
    \/ \E t \in TwoCallers : VerifyCredentialsResponse(t) /\ UNCHANGED <<crc, inVars, outVars, sendVars>>
    \/ \E t \in TwoCallers : BearerTokenResponse(t) /\ UNCHANGED <<crc, inVars, outVars, sendVars>>
    \/ \E t \in TwoCallers : SubscriptionsCountResponse(t) /\ UNCHANGED <<crc, inVars, outVars, sendVars>>
    \/ \E t \in TwoCallers : SubscribeResponse(t) /\ UNCHANGED <<crc, inVars, outVars, sendVars>>
SpecTwo == InitTwo /\ [][NextTwo]_vars

\* one webhook delivery
InitInbound == HelperInit /\ webhook_url = [protocol |-> Null, host |-> Null]
               /\ serverWebhooks = <<>> /\ InboundInit /\ OutboundIdle /\ SendIdle
NextInbound ==
    \/ Dispatch /\ UNCHANGED <<helperVars, outVars, sendVars>>
    \/ NextEvent /\ UNCHANGED <<helperVars, outVars, sendVars>>
    \/ TurnEnd /\ UNCHANGED <<helperVars, outVars, sendVars>>
    \/ Respond /\ UNCHANGED <<helperVars, outVars, sendVars>>
SpecInbound == InitInbound /\ [][NextInbound]_vars

\* one outbound thread
InitOutbound == HelperInit /\ webhook_url = [protocol |-> Null, host |-> Null]
                /\ serverWebhooks = <<>> /\ user_id = Undefined
                /\ InboundIdle /\ OutboundInit /\ SendIdle
NextOutbound ==
    \/ ActivityToTweets /\ UNCHANGED <<helperVars, user_id, inVars, sendVars>>
    \/ PostThreadReply /\ UNCHANGED <<helperVars, user_id, inVars, sendVars>>
    \/ StatusUpdateResponse /\ UNCHANGED <<helperVars, user_id, inVars, sendVars>>
SpecOutbound == InitOutbound /\ [][NextOutbound]_vars

\* one sendActivities batch
InitSend == HelperInit /\ webhook_url = [protocol |-> Null, host |-> Null]
            /\ serverWebhooks = <<>> /\ user_id = Undefined
            /\ InboundIdle /\ OutboundIdle /\ SendInit
NextSend ==
    \/ SendNext /\ UNCHANGED <<helperVars, user_id, inVars>>
    \/ ActivityToTweets /\ UNCHANGED <<helperVars, user_id, inVars, sendVars>>
    \/ PostThreadReply /\ UNCHANGED <<helperVars, user_id, inVars, sendVars>>
    \/ StatusUpdateResponse /\ UNCHANGED <<helperVars, user_id, inVars, sendVars>>
    \/ SendMentionEnd /\ UNCHANGED <<helperVars, user_id, inVars>>
    \/ SendCallAPIResponse /\ UNCHANGED <<helperVars, user_id, inVars>>
SpecSend == InitSend /\ [][NextSend]_vars

\* ------------------------------------------------------------ claims

Requests(l, ep) == SelectSeq(l, LAMBDA e : e.ev = "req" /\ e.m = ep)
Has(l, e) == \E i \in 1..Len(l) : l[i] = e
HasBefore(l, e, j) == \E i \in 1..(j - 1) : l[i] = e

\* C1: during init the network steps happen in a fixed order with no overlap:
\* setWebhook is called, and its request made, only after removeWebhooks has
\* returned; subscribe is called, and its request made, only after setWebhook
\* has returned; no request of an earlier step is made once a later step began.
C1_InitStepsInOrder ==
    \A t \in Callers : op[t] = "init" =>
        \A j \in 1..Len(log[t]) :
            LET e == log[t][j] IN
            /\ (e.ev \in {"call", "req"} /\ e.m = "setWebhook")
                  => HasBefore(log[t], Ret("removeWebhooks"), j)
            /\ (e.ev \in {"call", "req"} /\ e.m = "subscribe")
                  => HasBefore(log[t], Ret("setWebhook"), j)
            /\ (e.ev = "req" /\ e.m \in {"getWebhooks", "deleteWebhook"})
                  => ~HasBefore(log[t], Call("setWebhook"), j)
            /\ (e.ev = "req" /\ e.m = "setWebhook")
                  => ~HasBefore(log[t], Call("subscribe"), j)

\* init ran all its steps to the end
C1_Witness ==
    \E t \in Callers : op[t] = "init" /\ pc[t] = "done" /\ result[t] = "ok"
                       /\ Len(Requests(log[t], "subscribe")) = 1

\* C2: deleteWebhooks(list) issues one delete request for every webhook of the
\* list, in list order; a list of n webhooks that all delete successfully
\* results in exactly n delete requests. (Once removeWebhooks has returned,
\* every delete it issued was answered 200 or 204.)
C2_DeletesEveryWebhook ==
    \A t \in Callers : Has(log[t], Ret("removeWebhooks")) =>
        LET dels == Requests(log[t], "deleteWebhook") IN
        [k \in 1..Len(dels) |-> dels[k].arg] = webhooks[t]

\* C3: once removeWebhooks() and then setWebhook() have both completed
\* successfully, the environment has exactly one registered webhook, the new one.
C3_OneWebhookAfterSetup ==
    \A t \in Callers : (op[t] = "init" /\ Has(log[t], Ret("setWebhook")))
                          => serverWebhooks = <<hookSeq>>

\* C4: after one successful removeWebhooks() the environment has no registered
\* webhooks, and a second successful call leaves the registration state as the
\* first call left it (the list the second call fetched).
C4_RemoveWebhooksIsReset ==
    \A t \in Callers : (op[t] = "removeWebhooks" /\ pc[t] = "done" /\ result[t] = "ok") =>
        /\ serverWebhooks = <<>>
        /\ prev[t] = [op |-> "removeWebhooks", result |-> "ok"] => serverWebhooks = webhooks[t]

\* the step in which a subscribe() of caller t ends
SubscribeEnds(t) == method[t] = "subscribe" /\ pc[t] # "done" /\ pc'[t] = "done"

\* what C5 says of that step. A subscribe that ends at its subscribe request
\* made exactly one, on a pair that was not full, and a 204 added exactly 1 to
\* the cached subscriptions_count; a subscribe that ends earlier made none and
\* failed with TooManySubscriptionsError on a full cached pair.
SubscribeOutcome(t) ==
    LET calls == Requests(log'[t], "subscribe") IN
    IF pc[t] = "subscribe"
    THEN /\ Len(calls) = 1
         /\ _getSubscriptionsCount # <<>>
         /\ _getSubscriptionsCount[1].subscriptions_count
               # _getSubscriptionsCount[1].provisioned_count
         /\ calls[1].status = 204 =>
               /\ result'[t] = "ok"
               /\ _getSubscriptionsCount' =
                     <<[_getSubscriptionsCount[1] EXCEPT !.subscriptions_count = @ + 1]>>
    ELSE /\ Len(calls) = 0
         /\ result'[t] = "TooManySubscriptionsError"
         /\ _getSubscriptionsCount' # <<>>
         /\ _getSubscriptionsCount'[1].subscriptions_count
               = _getSubscriptionsCount'[1].provisioned_count

\* every request subscribe makes before its quota check was answered 200
PreliminaryOk(l) ==
    \A i \in 1..Len(l) :
        (l[i].ev = "req" /\ l[i].m \in {"verifyCredentials", "bearerToken", "subscriptionsCount"})
            => l[i].status = 200

\* C5 as stated: subscribe() fails with TooManySubscriptionsError and makes no
\* subscribe request when the cached subscriptions_count equals
\* provisioned_count; otherwise it makes exactly one subscribe request and a 204
\* adds exactly 1 to the cached subscriptions_count.
C5_AsStated == [][\A t \in Callers : SubscribeEnds(t) => SubscribeOutcome(t)]_vars

\* C5 amended: the same, for a subscribe() whose verifyCredentials call (and,
\* when no pair is cached yet, the bearer token exchange and the count fetch)
\* was answered 200; when one of them fails subscribe raises that error and
\* makes no subscribe request.
C5_SubscribeQuota ==
    [][\A t \in Callers : SubscribeEnds(t) =>
          IF PreliminaryOk(log'[t]) THEN SubscribeOutcome(t)
          ELSE /\ Len(Requests(log'[t], "subscribe")) = 0
               /\ result'[t] \notin {"ok", "TooManySubscriptionsError"}
               /\ UNCHANGED _getSubscriptionsCount]_vars

\* a subscribe that raised the quota by one was followed by one that hit it
C5_Witness ==
    \E t \in Callers : /\ op[t] = "subscribe" /\ pc[t] = "done"
                       /\ result[t] = "TooManySubscriptionsError"
                       /\ prev[t] = [op |-> "subscribe", result |-> "ok"]
                       /\ Requests(log[t], "subscribe") = <<>>

\* C6: postThreadReply(payloads) with n payloads issues its status updates one
\* at a time in array order, n of them when none fails; the first carries
\* payloads[0]'s declared in_reply_to_status_id, every later one the id_str the
\* call before it returned, and after a failed call no further call is issued.
C6_ThreadRepliesChain ==
    /\ Len(apiCalls) <= Len(given)
    /\ \A k \in 1..Len(apiCalls) :
          /\ apiCalls[k].i = k
          /\ apiCalls[k].form.status = given[k].status
          /\ k = 1 => apiCalls[k].form.in_reply_to_status_id = given[1].in_reply_to_status_id
          /\ k > 1 => /\ apiCalls[k - 1].res.kind = "resolve"
                      /\ apiCalls[k].form.in_reply_to_status_id = apiCalls[k - 1].res.id_str
    /\ outPc = "done" => Len(apiCalls) = Len(given)
    /\ outPc = "call" => pi = Len(apiCalls) + 1
    /\ (outPc = "rejected" /\ given # <<>>) =>
          /\ apiCalls # <<>>
          /\ apiCalls[Len(apiCalls)].res.kind = "reject"

\* three payloads with different declared parents were posted as one thread
C6_Witness ==
    /\ outPc = "done"
    /\ Len(apiCalls) = 3
    /\ given[1].in_reply_to_status_id # given[2].in_reply_to_status_id
    /\ apiCalls[1].res.id_str # apiCalls[2].res.id_str

RECURSIVE Concat(_)
Concat(ss) == IF ss = <<>> THEN <<>> ELSE Head(ss) \o Concat(Tail(ss))

CeilDiv(n, d) == (n + d - 1) \div d

\* C7: an outbound TwitterMention text of length len is split into
\* ceil(len / 280) chunks of at most 280 characters each, and the chunks in
\* order, concatenated, are the text (also when it holds line breaks).
C7_ChunksReproduceText ==
    (activity.replyToId # UndefinedId /\ outPc \notin {"activity", "threw"}) =>
        /\ Len(payloads) = CeilDiv(Len(activity.text), ChunkLen)
        /\ \A i \in 1..Len(payloads) : Len(payloads[i].status) <= ChunkLen
        /\ Concat([i \in 1..Len(payloads) |-> payloads[i].status]) = activity.text

\* the two ids name the same account
SameId(a, b) == a.t # "undefined" /\ b.t # "undefined" /\ a.v = b.v

Handled(f, i) == \E k \in 1..Len(handled) : handled[k] = [family |-> f, i |-> i]

Started(f, i) ==
    {k \in 1..Len(turns) : turns[k].ev = "start" /\ turns[k].family = f /\ turns[k].i = i}

\* C8: a tweet-mention or direct-message event handed to its handler produces
\* no activity when its sender is the configured self user, and exactly one
\* Message activity when the sender is anyone else.
C8_SelfFilter ==
    \A f \in {"tweet_create_events", "direct_message_events"} :
        \A i \in 1..Len(body[f].events) :
            Handled(f, i) =>
                IF SameId(body[f].events[i].sender, user_id)
                THEN Started(f, i) = {}
                ELSE /\ Cardinality(Started(f, i)) = 1
                     /\ \A k \in Started(f, i) :
                           /\ turns[k].activity.type = "message"
                           /\ turns[k].activity.from = body[f].events[i].sender

\* a delivery of two direct messages, the bot's own (its id a string, the self
\* id a number) dropped and the other one handed to the bot logic
C8_Witness ==
    /\ user_id = Num(1)
    /\ \E i, j \in 1..Len(body["direct_message_events"].events) :
          /\ Handled("direct_message_events", i)
          /\ SameId(body["direct_message_events"].events[i].sender, user_id)
          /\ Started("direct_message_events", i) = {}
          /\ Started("direct_message_events", j) # {}

\* C9: processActivity processes every event of every family present in the
\* body, in array order within its family; when the delivery is answered no
\* event of a present family is left unprocessed.
C9_EveryFamilyProcessed ==
    responded =>
        \A f \in FamilyNames : \A i \in 1..Len(body[f].events) : Handled(f, i)

\* C10: within one delivery the turn of an event starts only when the turn
\* before it has finished, never two in flight, and the response is sent only
\* when every turn has finished.
C10_TurnsOneAtATime ==
    /\ Cardinality(inflight) <= 1
    /\ \A k \in 2..Len(turns) : turns[k].ev = "start" => turns[k - 1].ev = "ok"
    /\ responded => /\ inflight = {}
                    /\ \A k \in 1..Len(turns) :
                          turns[k].ev = "start" =>
                             \E j \in (k + 1)..Len(turns) : turns[j].ev = "ok" /\ turns[j].i = turns[k].i

\* a delivery of two events was answered after both turns had finished
C10_Witness == responded /\ Len(turns) = 4 /\ Len(handled) = 2

\* C11: every delivery handled by processActivity is answered with status 200
\* and an empty body, whatever events it holds and however the translation and
\* the turn of each event end: processActivity never ends (returns, or rejects
\* with a turn's or a translation's error) without having sent the answer.
C11_DeliveryAnswered ==
    (inPc \in {"done", "rejected"} /\ inflight = {}) => responded

\* C12: sendActivities takes up the activities of a batch one at a time in
\* array order, an error while sending one of them never leaves sendActivities,
\* and sendActivities returns normally with every activity of the batch taken
\* up (also when a TwitterMention message has an empty text).
C12_SendNeverPropagates ==
    /\ sendPc # "threw"
    /\ attempted = [k \in 1..Len(attempted) |-> k]
    /\ sendPc = "returned" => Len(attempted) = Len(activities)

InitSteps == {"verifyCredentials", "removeWebhooks", "setWebhook", "subscribe"}

Count(l, e) == Cardinality({i \in 1..Len(l) : l[i] = e})

\* C13: when a lifecycle step of init fails (verifyCredentials, removeWebhooks,
\* setWebhook or subscribe) the error is raised out of init and no later step
\* is executed: the throw of a step is the last thing init does, init ends with
\* that step's error, and no step is called a second time.
C13_InitAbortsOnFailure ==
    \A t \in Callers : op[t] = "init" =>
        /\ \A j \in 1..Len(log[t]) :
              log[t][j].ev = "throw" =>
                 /\ j = Len(log[t])
                 /\ log[t][j].m = method[t]
                 /\ pc[t] = "done"
                 /\ result[t] \notin {"ok", "pending", "none"}
        /\ \A m \in InitSteps : Count(log[t], Call(m)) <= 1
        /\ (pc[t] = "done" /\ result[t] # "ok") => log[t][Len(log[t])] = Throw(method[t])

\* init was aborted by setWebhook's error, after removeWebhooks had returned
C13_Witness ==
    \E t \in Callers : /\ op[t] = "init" /\ pc[t] = "done" /\ result[t] # "ok"
                       /\ Has(log[t], Ret("removeWebhooks"))
                       /\ Has(log[t], Throw("setWebhook"))
                       /\ ~Has(log[t], Call("subscribe"))

\* the outcome of the method whose request is event j of the log: what the
\* method threw, or "ok"
Raised(t, j) ==
    IF j < Len(log[t]) /\ log[t][j + 1].ev = "throw" THEN result[t]
    ELSE IF j < Len(log[t]) THEN "ok" ELSE "pending"

\* C14: getWebhooks() maps the status of its answer: 200 returns the parsed
\* list, 429 raises RateLimitError, and every other status raises the generic
\* TwitterError.
C14_GetWebhooksStatusMap ==
    \A t \in Callers : \A j \in 1..Len(log[t]) :
        (log[t][j].ev = "req" /\ log[t][j].m = "getWebhooks") =>
            LET s == log[t][j].status IN
            /\ s = 200 => ~(j < Len(log[t]) /\ log[t][j + 1].ev = "throw")
            /\ s = 429 => Raised(t, j) = "RateLimitError"
            /\ s \notin {200, 429} => Raised(t, j) = "TwitterError"

\* a URL that is well-formed and uses https: it has a protocol, a host, and
\* the protocol is https
WellFormedHttps(u) == u.protocol = "https:" /\ u.host # Null

\* C15: setWebhook(url) fails fast with a TypeError and makes no request when
\* the URL has no protocol or no host or does not use https; a registration
\* request is sent only for a well-formed https URL.
C15_SetWebhookValidatesUrl ==
    \A t \in Callers :
        /\ (Has(log[t], Call("setWebhook")) /\ ~WellFormedHttps(webhook_url)) =>
              /\ Requests(log[t], "setWebhook") = <<>>
              /\ result[t] = "TypeError"
              /\ log[t][Len(log[t])] = Throw("setWebhook")
        /\ Requests(log[t], "setWebhook") # <<>> => WellFormedHttps(webhook_url)

\* C16: for a valid URL setWebhook maps the status of the registration answer:
\* 200 or 204 is success, 400 or 403 raises WebhookURIError, 429 raises
\* RateLimitError, every other status a generic error; and one call makes
\* exactly one registration request.
C16_SetWebhookStatusMap ==
    \A t \in Callers : (WellFormedHttps(webhook_url) /\ webhook_url.host # "null") =>
        /\ Len(Requests(log[t], "setWebhook")) <= 1
        /\ (Has(log[t], Ret("setWebhook")) \/ Has(log[t], Throw("setWebhook")))
              => Len(Requests(log[t], "setWebhook")) = 1
        /\ \A j \in 1..Len(log[t]) :
              (log[t][j].ev = "req" /\ log[t][j].m = "setWebhook") =>
                  LET s == log[t][j].status IN
                  /\ s \in {200, 204} => Raised(t, j) = "ok"
                  /\ s \in {400, 403} => Raised(t, j) = "WebhookURIError"
                  /\ s = 429 => Raised(t, j) = "RateLimitError"
                  /\ s \notin {200, 204, 400, 403, 429} =>
                        Raised(t, j) \in {"TwitterError", "URIError", "Error"}

\* C17: validateWebhook(token, auth) is deterministic and free of side
\* effects: for the same token and consumer_secret it gives the same
\* response_token whatever state the helper is in, and a call makes no request
\* and leaves the bearer token cache, the subscription count cache and every
\* operation under way as they were.
C17_ValidateWebhookPure ==
    [][crc' # crc =>
          /\ \A i, j \in 1..Len(crc') :
                (crc'[i].token = crc'[j].token /\ crc'[i].consumer_secret = crc'[j].consumer_secret)
                    => crc'[i].answer = crc'[j].answer
          /\ UNCHANGED <<_bearerToken, _getSubscriptionsCount, log, pc, result,
                         serverWebhooks, hookSeq>>]_vars

\* the same token was validated before the bearer token and the count were
\* cached and again after
C17_Witness ==
    \E i, j \in 1..Len(crc) :
        /\ i < j
        /\ crc[i].token = crc[j].token
        /\ ~crc[i].bearer /\ ~crc[i].cached
        /\ crc[j].bearer /\ crc[j].cached

\* C18: over any sequence of lifecycle operations on one helper the bearer
\* token is exchanged at most once: once a token is cached no step makes a
\* token request or waits for one, and the cached token is never replaced.
C18_BearerTokenExchangedOnce ==
    [][_bearerToken # Null =>
          /\ _bearerToken' = _bearerToken
          /\ \A t \in Callers :
                /\ pc'[t] # "bearerToken"
                /\ Len(Requests(log'[t], "bearerToken")) <= Len(Requests(log[t], "bearerToken"))]_vars

\* an operation that needs the token got to its own request without a token
\* request: the token had been cached by the operation before it
C18_Witness ==
    \E t \in Callers : /\ _bearerToken # Null
                       /\ prev[t].op \in {"removeWebhooks", "subscribe", "unsubscribe", "init"}
                       /\ op[t] \in {"removeWebhooks", "unsubscribe"}
                       /\ Requests(log[t], "bearerToken") = <<>>
                       /\ Requests(log[t], "getWebhooks") \o Requests(log[t], "unsubscribe") # <<>>

\* the step in which caller t's subscribe (unsubscribe) request is answered
\* and the call returns normally
Succeeds(t, m) == pc[t] = m /\ pc'[t] = "done" /\ result'[t] = "ok"

\* C19: over any sequence of subscribe and unsubscribe calls on one helper the
\* subscription count is fetched at most once: once a pair is cached no step
\* makes a count request or waits for one, the pair stays cached with its
\* provisioned_count, and its subscriptions_count changes by +1 in the step of
\* a successful subscribe, by -1 in the step of a successful unsubscribe, and
\* in no other step.
C19_CountFetchedOnce ==
    [][_getSubscriptionsCount # <<>> =>
          /\ \A t \in Callers :
                /\ pc'[t] # "subscriptionsCount"
                /\ Len(Requests(log'[t], "subscriptionsCount"))
                      <= Len(Requests(log[t], "subscriptionsCount"))
          /\ _getSubscriptionsCount' # <<>>
          /\ _getSubscriptionsCount'[1].provisioned_count
                = _getSubscriptionsCount[1].provisioned_count
          /\ _getSubscriptionsCount'[1].subscriptions_count
                = _getSubscriptionsCount[1].subscriptions_count
                  + (IF \E t \in Callers : Succeeds(t, "subscribe") THEN 1
                     ELSE IF \E t \in Callers : Succeeds(t, "unsubscribe") THEN -1
                     ELSE 0)]_vars

\* with the pair cached, a successful subscribe was followed by a successful
\* unsubscribe that made no count request
C19_Witness ==
    \E t \in Callers : /\ _getSubscriptionsCount # <<>>
                       /\ prev[t] = [op |-> "subscribe", result |-> "ok"]
                       /\ op[t] = "unsubscribe" /\ pc[t] = "done" /\ result[t] = "ok"

\* the status of the request answered in this step
Answered(t) == log'[t][Len(log'[t]) - 1].status

\* C20: unsubscribe(userId) takes 1 off the cached subscriptions_count when its
\* delete request is answered 204, and on any other status raises
\* UserSubscriptionError and leaves the cached count as it was; subscribe()
\* likewise raises UserSubscriptionError and leaves the cached count as it was
\* when its subscription request is answered anything other than 204.
C20_SubscriptionStatusMap ==
    [][\A t \in Callers :
          (pc[t] \in {"subscribe", "unsubscribe"} /\ pc'[t] = "done") =>
              IF Answered(t) = 204
              THEN pc[t] = "unsubscribe" =>
                      /\ result'[t] = "ok"
                      /\ _getSubscriptionsCount'
                            = updateSubscriptionCount(_getSubscriptionsCount, -1)
              ELSE /\ result'[t] = "UserSubscriptionError"
                   /\ UNCHANGED _getSubscriptionsCount]_vars

\* C21: callAPI makes exactly one HTTP attempt per call and its outcome
\* follows from what that attempt gave: rejected with the raw transport error
\* when the transport reported one, rejected with the error's message when the
\* parsed body holds an error object, resolved with the parsed body otherwise.
C21_CallAPIOutcome ==
    \A k \in 1..Len(apiCalls) :
        LET c == apiCalls[k]
            tr == c.http[1]
        IN  /\ Len(c.http) = 1
            /\ IF tr.err # Null
               THEN c.out.kind = "reject" /\ c.out.reason = tr.err
               ELSE IF tr.body.present /\ tr.body.error.present
               THEN c.out.kind = "reject" /\ c.out.reason = tr.body.error.message
               ELSE c.out.kind = "resolve" /\ c.out.body = tr.body

\* one batch saw all of it: a call rejected for a body with an error object,
\* and a call resolved with no body at all
C21_Witness ==
    \E j, k \in 1..Len(apiCalls) :
        /\ apiCalls[j].http[1].body.error.present /\ apiCalls[j].out.kind = "reject"
        /\ apiCalls[k].http[1].err = Null /\ ~apiCalls[k].http[1].body.present
        /\ apiCalls[k].out.kind = "resolve"

\* the combinations of channelId and type the adapter sends
Sendable == {<<"TwitterDM", "message">>, <<"TwitterDM", "typing">>,
             <<"TwitterMention", "message">>}

\* C22: sendActivities makes an API call for an activity only when its
\* (channelId, type) is (TwitterDM, Message), (TwitterDM, Typing) or
\* (TwitterMention, Message): every API call of a batch belongs to such an
\* activity, and an activity of any other combination is passed over without one.
C22_CallsOnlyForSendable ==
    \A k \in 1..Len(apiCalls) :
        /\ apiCalls[k].a \in 1..Len(activities)
        /\ <<activities[apiCalls[k].a].channelId, activities[apiCalls[k].a].type>> \in Sendable

\* a batch was sent to its end in which an activity of another combination was
\* passed over and the activity after it was sent
C22_Witness ==
    /\ sendPc = "returned"
    /\ Len(activities) = 2
    /\ <<activities[1].channelId, activities[1].type>> \notin Sendable
    /\ Len(apiCalls) = 1
    /\ apiCalls[1].a = 2

TypingFamily == "direct_messsage_indicate_typing_events"

\* C23: every DM-typing event handed to its handler yields exactly one Typing
\* activity for the bot logic, whoever sent it, with conversation id and from
\* id the event's sender id and recipient id the event's target recipient id.
C23_TypingEventYieldsActivity ==
    \A i \in 1..Len(body[TypingFamily].events) :
        Handled(TypingFamily, i) =>
            /\ Cardinality(Started(TypingFamily, i)) = 1
            /\ \A k \in Started(TypingFamily, i) :
                  /\ turns[k].activity.type = "typing"
                  /\ turns[k].activity.conversation = body[TypingFamily].events[i].sender
                  /\ turns[k].activity.from = body[TypingFamily].events[i].sender
                  /\ turns[k].activity.recipient = body[TypingFamily].events[i].recipient

\* C24: every tweet-create event handed to its handler whose author is not the
\* bot yields one Message activity with channelId TwitterMention, conversation
\* id and from id the author's id, recipient id the self user id, and the
\* tweet's text.
C24_MentionYieldsMessage ==
    \A i \in 1..Len(body["tweet_create_events"].events) :
        LET tweet == body["tweet_create_events"].events[i] IN
        (Handled("tweet_create_events", i) /\ ~SameId(tweet.sender, user_id)) =>
            /\ Cardinality(Started("tweet_create_events", i)) = 1
            /\ \A k \in Started("tweet_create_events", i) :
                  turns[k].activity = [channelId |-> "TwitterMention", type |-> "message",
                                       conversation |-> tweet.sender, from |-> tweet.sender,
                                       recipient |-> user_id, text |-> tweet.text]

\* the tweet "hi" of author 9 reached the bot logic of the bot with self id 1,
\* after a tweet with another text
C24_Witness ==
    /\ user_id = Num(1)
    /\ \E k \in 2..Len(turns) :
          /\ turns[k].ev = "start"
          /\ turns[k].i = 2
          /\ turns[k].activity.channelId = "TwitterMention"
          /\ turns[k].activity.conversation = Num(9)
          /\ turns[k].activity.text = "hi"
          /\ body["tweet_create_events"].events[1].text = "yo"

\* the cached pair is within its quota
WithinQuota(cache) ==
    cache # <<>> /\ cache[1].subscriptions_count <= cache[1].provisioned_count

\* C25: over any sequence of subscribe and unsubscribe calls made one after
\* the other, a cached pair with subscriptions_count <= provisioned_count (as
\* first fetched) keeps subscriptions_count <= provisioned_count in every step.
C25_CountStaysWithinQuota ==
    [][WithinQuota(_getSubscriptionsCount) => WithinQuota(_getSubscriptionsCount')]_vars

\* a successful subscribe has filled the quota to the last place
C25_Witness ==
    \E t \in Callers : /\ op[t] = "subscribe" /\ pc[t] = "done" /\ result[t] = "ok"
                       /\ _getSubscriptionsCount # <<>>
                       /\ _getSubscriptionsCount[1].subscriptions_count
                             = _getSubscriptionsCount[1].provisioned_count
                       /\ Len(Requests(log[t], "subscriptionsCount")) = 1

\* C26: over any sequence of subscribe and unsubscribe calls the cached
\* subscriptions_count is never negative.
C26_CountNeverNegative ==
    _getSubscriptionsCount # <<>> => _getSubscriptionsCount[1].subscriptions_count >= 0

\* the count requests the two calls have made between them
CountFetches == Requests(log[1], "subscriptionsCount") \o Requests(log[2], "subscriptionsCount")

\* C27: for every interleaving of two subscribe() calls in flight at the same
\* time the quota holds. With the pair fetched once, within its quota: a call
\* goes on to its subscribe request only while the cached subscriptions_count
\* is not at provisioned_count, and the answer to a subscribe request never
\* takes the cached subscriptions_count beyond provisioned_count.
C27_QuotaHoldsUnderOverlap ==
    [][\A t \in TwoCallers :
          /\ (pc[t] # "subscribe" /\ pc'[t] = "subscribe") =>
                _getSubscriptionsCount'[1].subscriptions_count
                   # _getSubscriptionsCount'[1].provisioned_count
          /\ (pc[t] = "subscribe" /\ pc'[t] = "done" /\ Len(CountFetches) = 1
                 /\ WithinQuota(_getSubscriptionsCount))
                => WithinQuota(_getSubscriptionsCount')]_vars

Route == Ev("route", "get", 0, 0)

\* C28: during init the GET handler that answers the CRC challenge is
\* registered on the web server before the registration request of setWebhook
\* is sent, and only after verifyCredentials has succeeded: registering it is
\* the next thing init does once verifyCredentials has returned, answered 200.
C28_CrcRouteBeforeSetWebhook ==
    /\ crcRoute => user_id # Undefined
    /\ \A t \in Callers : op[t] = "init" =>
          \A j \in 1..Len(log[t]) :
              /\ (log[t][j].ev = "req" /\ log[t][j].m = "setWebhook") =>
                    /\ HasBefore(log[t], Route, j)
                    /\ crcRoute
              /\ log[t][j] = Route =>
                    /\ j > 2
                    /\ log[t][j - 1] = Ret("verifyCredentials")
                    /\ log[t][j - 2] = Req("verifyCredentials", 0, 200)
                    /\ crcRoute

\* init has sent its registration request with the handler in place, and a
\* challenge has been answered
C28_Witness ==
    \E t \in Callers : /\ op[t] = "init"
                       /\ Requests(log[t], "setWebhook") # <<>>
                       /\ crcRoute
                       /\ crc # <<>>

====
